---- MODULE Spec2Model ----
(***************************************************************************)
(* Model of the "jira issue worklog add" command                           *)
(* (internal/cmd/issue/worklog/add/add.go).                                *)
(*                                                                         *)
(* One behaviour is one process invocation of add(): the command line,    *)
(* the flags and the state of standard input are fixed by Init, and the   *)
(* actions follow the body of add() from parseArgsAndFlags to the process *)
(* exit.  Everything the environment decides (what a file holds, what the *)
(* user answers, whether the server or the browser fails) is a            *)
(* nondeterministic choice.                                                *)
(*                                                                         *)
(* Issue keys are sequences of one-character strings so that the          *)
(* project-key normalisation can inspect them; every other text value is  *)
(* a string.                                                               *)
(***************************************************************************)
EXTENDS Integers, Sequences, FiniteSets, TLC

VARIABLES
    args,       \* positional arguments of the invocation
    flags,      \* [template, noInput, web] as given on the command line
    stdin,      \* cmdutil.StdinHasData()
    params,     \* the addParams record shared by params and ac.params
    qs,         \* the question list returned by getQuestions
    ans,        \* the answer struct filled by survey.Ask
    action,     \* the answer of the confirmation gate
    asks,       \* log: the question list of every survey.Ask call
    reads,      \* log: number of cmdutil.ReadFile calls
    readBody,   \* log: the content the last ReadFile returned
    calls,      \* log: every AddIssueWorklog call with its outcome
    out,        \* log: user-visible output events
    pc,         \* position inside add()
    exitCode    \* process exit code, NoExit while running

vars == <<args, flags, stdin, params, qs, ans, action, asks, reads,
          readBody, calls, out, pc, exitCode>>

(***************************************************************************)
(* Bounds and input domains                                                *)
(***************************************************************************)
MaxArgs == 5

NoExit == 0 - 1

Digits == {"0", "1", "2", "3", "4", "5", "6", "7", "8", "9"}

KeyArgs == { <<>>, <<"1">>, <<"P", "-", "7">> }
TimeSpentArgs == { "", "30m" }
CommentArgs == { "", "My worklog" }
DateArgs == { "", "2022-02-02" }
ClockArgs == { "", "13:35" }
ExtraArgs == { "extra" }

TemplateFlags == { "", "-", "/path/to/template.tmpl" }

FileBodies == { "", "Fixed bug" }

ArgDomain(i) ==
    IF i = 1 THEN KeyArgs
    ELSE IF i = 2 THEN TimeSpentArgs
    ELSE IF i = 3 THEN CommentArgs
    ELSE IF i = 4 THEN DateArgs
    ELSE IF i = 5 THEN ClockArgs
    ELSE ExtraArgs

RECURSIVE ArgsOfLen(_)
ArgsOfLen(n) ==
    IF n = 0 THEN { <<>> }
    ELSE { Append(s, v) : s \in ArgsOfLen(n - 1), v \in ArgDomain(n) }

ArgLists == UNION { ArgsOfLen(n) : n \in 0..MaxArgs }

(***************************************************************************)
(* Configuration and helpers of package cmdutil                            *)
(***************************************************************************)
ProjectKey == <<"P">>

ActionSubmit == "Submit"
ActionCancel == "Cancel"

IsNumeric(key) == Len(key) > 0 /\ \A i \in 1..Len(key) : key[i] \in Digits

GetJiraIssueKey(project, key) ==
    IF IsNumeric(key) THEN project \o <<"-">> \o key ELSE key

(***************************************************************************)
(* parseArgsAndFlags                                                       *)
(***************************************************************************)
parseArgsAndFlags(a, f) ==
    [ issueKey    |-> IF Len(a) >= 1 THEN GetJiraIssueKey(ProjectKey, a[1]) ELSE <<>>,
      timeSpent   |-> IF Len(a) >= 2 THEN a[2] ELSE "",
      comment     |-> IF Len(a) >= 3 THEN a[3] ELSE "",
      startedDate |-> IF Len(a) >= 4 THEN a[4] ELSE "",
      startedTime |-> IF Len(a) >= 5 THEN a[5] ELSE "",
      template    |-> f.template,
      noInput     |-> f.noInput ]

\* variant: the "-" sentinel of the template flag is not recognised
isNonInteractive_stdinOnly(p, hasData) == hasData

isNonInteractive(p, hasData) == hasData \/ p.template = "-"

isMandatoryParamsMissing(p) == p.issueKey = <<>>

(***************************************************************************)
(* getQuestions                                                            *)
(***************************************************************************)
DefaultTimeSpent == "60m"
DefaultComment == "Implementation"
DefaultDate == "2006-01-02"
DefaultTime == "15:04"

headQuestions(p) ==
    (IF p.issueKey = <<>> THEN <<"issueKey">> ELSE <<>>)
    \o (IF p.timeSpent = "" THEN <<"timeSpent">> ELSE <<>>)

\* variant: the started time question is appended before the started date
tailQuestions_timeFirst(p) ==
    (IF p.comment = "" THEN <<"comment">> ELSE <<>>)
    \o (IF p.startedTime = "" THEN <<"startedTime">> ELSE <<>>)
    \o (IF p.startedDate = "" THEN <<"startedDate">> ELSE <<>>)

tailQuestions(p) ==
    (IF p.comment = "" THEN <<"comment">> ELSE <<>>)
    \o (IF p.startedDate = "" THEN <<"startedDate">> ELSE <<>>)
    \o (IF p.startedTime = "" THEN <<"startedTime">> ELSE <<>>)

needsRead(p, hasData) == p.template # "" \/ hasData

\* rd is the outcome of cmdutil.ReadFile: [ok |-> BOOLEAN, body |-> STRING]
getQuestions(p, hasData, rd) ==
    LET read == needsRead(p, hasData)
        defaultBody == IF read THEN rd.body ELSE ""
        early == p.noInput /\ p.comment = ""
    IN  [ failed |-> read /\ ~rd.ok,
          read   |-> read,
          body   |-> defaultBody,
          params |-> IF early THEN [p EXCEPT !.comment = defaultBody] ELSE p,
          qs     |-> IF early THEN headQuestions(p)
                     ELSE headQuestions(p) \o tailQuestions(p) ]

ReadResults == { [ok |-> TRUE, body |-> b] : b \in FileBodies }
               \cup { [ok |-> FALSE, body |-> ""] }

(***************************************************************************)
(* survey.Ask: the answers a user can give to a question list              *)
(***************************************************************************)
ZeroAnswers ==
    [ IssueKey |-> <<>>, Comment |-> "", StartedDate |-> "",
      StartedTime |-> "", TimeSpent |-> "" ]

Asked(q, name) == \E i \in 1..Len(q) : q[i] = name

Answers(q) ==
    [ IssueKey    : IF Asked(q, "issueKey")
                    THEN { <<"2">>, <<"P", "-", "9">> } ELSE { <<>> },
      TimeSpent   : IF Asked(q, "timeSpent")
                    THEN { DefaultTimeSpent, "4h 20m" } ELSE { "" },
      Comment     : IF Asked(q, "comment")
                    THEN { DefaultComment, "typed" } ELSE { "" },
      StartedDate : IF Asked(q, "startedDate")
                    THEN { DefaultDate, "2022-05-15" } ELSE { "" },
      StartedTime : IF Asked(q, "startedTime")
                    THEN { DefaultTime, "15:55" } ELSE { "" } ]

mergeKey(cur, a) == IF cur = <<>> THEN a ELSE cur

\* variant: the answer is copied without the "was empty" test
mergeField_overwrite(cur, a) == a

mergeField(cur, a) == IF cur = "" THEN a ELSE cur

mergeAnswers(p, a) ==
    [ p EXCEPT !.issueKey    = mergeKey(p.issueKey, a.IssueKey),
               !.comment     = mergeField(p.comment, a.Comment),
               !.startedDate = mergeField(p.startedDate, a.StartedDate),
               !.startedTime = mergeField(p.startedTime, a.StartedTime),
               !.timeSpent   = mergeField(p.timeSpent, a.TimeSpent) ]

started(p) == p.startedDate \o "T" \o p.startedTime \o ":00.000+0100"

(***************************************************************************)
(* State machine of add()                                                  *)
(***************************************************************************)
NoParams ==
    [ issueKey |-> <<>>, timeSpent |-> "", comment |-> "", startedDate |-> "",
      startedTime |-> "", template |-> "", noInput |-> FALSE ]

Init ==
    /\ args \in ArgLists
    /\ flags \in [ template : TemplateFlags, noInput : BOOLEAN, web : BOOLEAN ]
    /\ stdin \in BOOLEAN
    /\ params = NoParams
    /\ qs = <<>>
    /\ ans = ZeroAnswers
    /\ action = ""
    /\ asks = <<>>
    /\ reads = 0
    /\ readBody = ""
    /\ calls = <<>>
    /\ out = <<>>
    /\ pc = "start"
    /\ exitCode = NoExit

\* cmdutil.Failed and a failing cmdutil.ExitIfError: report and os.Exit(1)
Fail(msg) ==
    /\ out' = Append(out, msg)
    /\ pc' = "exited"
    /\ exitCode' = 1

ParseArgs ==
    /\ pc = "start"
    /\ params' = parseArgsAndFlags(args, flags)
    /\ pc' = "parsed"
    /\ UNCHANGED <<args, flags, stdin, qs, ans, action, asks, reads,
                   readBody, calls, out, exitCode>>

CheckNonInteractive ==
    /\ pc = "parsed"
    /\ IF isNonInteractive(params, stdin)
       THEN /\ params' = [params EXCEPT !.noInput = TRUE]
            /\ IF isMandatoryParamsMissing(params')
               THEN Fail("mandatory")
               ELSE /\ pc' = "questions"
                    /\ UNCHANGED <<out, exitCode>>
       ELSE /\ pc' = "questions"
            /\ UNCHANGED <<params, out, exitCode>>
    /\ UNCHANGED <<args, flags, stdin, qs, ans, action, asks, reads,
                   readBody, calls>>

GetQuestions ==
    /\ pc = "questions"
    /\ \E rd \in ReadResults :
         LET r == getQuestions(params, stdin, rd) IN
         /\ r.read \/ rd = [ok |-> TRUE, body |-> ""]
         /\ reads' = IF r.read THEN reads + 1 ELSE reads
         /\ readBody' = r.body
         /\ IF r.failed
            THEN /\ Fail("read error")
                 /\ UNCHANGED <<params, qs>>
            ELSE /\ params' = r.params
                 /\ qs' = r.qs
                 /\ pc' = "ask"
                 /\ UNCHANGED <<out, exitCode>>
    /\ UNCHANGED <<args, flags, stdin, ans, action, asks, calls>>

AskFields ==
    /\ pc = "ask"
    /\ IF Len(qs) > 0
       THEN /\ asks' = Append(asks, qs)
            /\ \/ /\ Fail("prompt error")
                  /\ UNCHANGED <<params, ans>>
               \/ /\ \E a \in Answers(qs) :
                       /\ ans' = a
                       /\ params' = mergeAnswers(params, a)
                  /\ pc' = "gate"
                  /\ UNCHANGED <<out, exitCode>>
       ELSE /\ pc' = "gate"
            /\ UNCHANGED <<params, ans, asks, out, exitCode>>
    /\ UNCHANGED <<args, flags, stdin, qs, action, reads, readBody, calls>>

\* variant: the cancel choice is not acted upon
gateAborts_never(a) == FALSE

gateAborts(a) == a = ActionCancel

Gate ==
    /\ pc = "gate"
    /\ IF ~params.noInput
       THEN /\ asks' = Append(asks, <<"action">>)
            /\ \/ /\ Fail("prompt error")
                  /\ UNCHANGED action
               \/ /\ \E a \in { ActionSubmit, ActionCancel } :
                       /\ action' = a
                       /\ IF gateAborts(a)
                          THEN Fail("Action aborted")
                          ELSE /\ pc' = "submit"
                               /\ UNCHANGED <<out, exitCode>>
       ELSE /\ pc' = "submit"
            /\ UNCHANGED <<action, asks, out, exitCode>>
    /\ UNCHANGED <<args, flags, stdin, params, qs, ans, reads, readBody,
                   calls>>

\* variant: the error of AddIssueWorklog is not checked
Submit_ignoreError ==
    /\ pc = "submit"
    /\ \E ok \in BOOLEAN :
         calls' = Append(calls,
                [ issueKey  |-> params.issueKey,
                  body      |-> params.comment,
                  started   |-> started(params),
                  timeSpent |-> params.timeSpent,
                  ok        |-> ok ])
    /\ pc' = "report"
    /\ UNCHANGED <<args, flags, stdin, params, qs, ans, action, asks, reads,
                   readBody, out, exitCode>>

\* variant: a failed AddIssueWorklog is tried once more
Submit_retry ==
    /\ pc = "submit"
    /\ \E ok \in BOOLEAN :
         /\ calls' = Append(calls,
                [ issueKey  |-> params.issueKey,
                  body      |-> params.comment,
                  started   |-> started(params),
                  timeSpent |-> params.timeSpent,
                  ok        |-> ok ])
         /\ IF ok
            THEN /\ pc' = "report"
                 /\ UNCHANGED <<out, exitCode>>
            ELSE IF Len(calls) = 0
            THEN /\ pc' = "submit"
                 /\ UNCHANGED <<out, exitCode>>
            ELSE Fail("submit error")
    /\ UNCHANGED <<args, flags, stdin, params, qs, ans, action, asks, reads,
                   readBody>>

Submit ==
    /\ pc = "submit"
    /\ \E ok \in BOOLEAN :
         /\ calls' = Append(calls,
                [ issueKey  |-> params.issueKey,
                  body      |-> params.comment,
                  started   |-> started(params),
                  timeSpent |-> params.timeSpent,
                  ok        |-> ok ])
         /\ IF ok
            THEN /\ pc' = "report"
                 /\ UNCHANGED <<out, exitCode>>
            ELSE Fail("submit error")
    /\ UNCHANGED <<args, flags, stdin, params, qs, ans, action, asks, reads,
                   readBody>>

Report ==
    /\ pc = "report"
    /\ IF flags.web
       THEN \E ok \in BOOLEAN :
              IF ok
              THEN /\ out' = out \o <<"success", "url", "navigate">>
                   /\ pc' = "exited"
                   /\ exitCode' = 0
              ELSE /\ out' = out \o <<"success", "url", "navigate",
                                      "navigate error">>
                   /\ pc' = "exited"
                   /\ exitCode' = 1
       ELSE /\ out' = out \o <<"success", "url">>
            /\ pc' = "exited"
            /\ exitCode' = 0
    /\ UNCHANGED <<args, flags, stdin, params, qs, ans, action, asks, reads,
                   readBody, calls>>

Next ==
    \/ ParseArgs
    \/ CheckNonInteractive
    \/ GetQuestions
    \/ AskFields
    \/ Gate
    \/ Submit
    \/ Report

Spec == Init /\ [][Next]_vars

TypeOK ==
    /\ pc \in {"start", "parsed", "questions", "ask", "gate", "submit",
               "report", "exited"}
    /\ exitCode \in {NoExit, 0, 1}
    /\ (pc = "exited") <=> (exitCode # NoExit)

(***************************************************************************)
(* Vocabulary of the properties                                            *)
(***************************************************************************)
\* the parameter record right after argument resolution
Resolved == parseArgsAndFlags(args, flags)

\* stdin has piped data or the template flag is "-"
NonInteractiveInput == stdin \/ flags.template = "-"

\* the survey.Ask calls made for fields (all but the confirmation gate)
FieldAsks == SelectSeq(asks, LAMBDA q : q # <<"action">>)

CommentAsked == \E i \in 1..Len(asks) : Asked(asks[i], "comment")

Created == \E i \in 1..Len(calls) : calls[i].ok

Printed(msg) == \E i \in 1..Len(out) : out[i] = msg

AllSupplied ==
    /\ Resolved.issueKey # <<>>
    /\ Resolved.timeSpent # ""
    /\ Resolved.comment # ""
    /\ Resolved.startedDate # ""
    /\ Resolved.startedTime # ""

QuestionOrder ==
    <<"issueKey", "timeSpent", "comment", "startedDate", "startedTime">>

Rank(name) == CHOOSE i \in 1..Len(QuestionOrder) : QuestionOrder[i] = name

FieldEmpty(p, name) ==
    IF name = "issueKey" THEN p.issueKey = <<>>
    ELSE IF name = "timeSpent" THEN p.timeSpent = ""
    ELSE IF name = "comment" THEN p.comment = ""
    ELSE IF name = "startedDate" THEN p.startedDate = ""
    ELSE p.startedTime = ""

DateValues == DateArgs \cup { DefaultDate, "2022-05-15" }
ClockValues == ClockArgs \cup { DefaultTime, "15:55" }

(***************************************************************************)
(* C1: in non-interactive mode (piped stdin or template "-") with an empty *)
(* issue key after argument resolution, add() exits non-zero before any   *)
(* survey prompt, before any template/stdin read and before                *)
(* AddIssueWorklog.                                                        *)
(***************************************************************************)
C1_MissingKeyFailsFirst ==
    (NonInteractiveInput /\ Resolved.issueKey = <<>>) =>
        /\ asks = <<>>
        /\ reads = 0
        /\ calls = <<>>
        /\ pc \notin {"start", "parsed"} => (pc = "exited" /\ exitCode = 1)

C1_Witness ==
    /\ flags.template = "-"
    /\ ~stdin
    /\ Resolved.issueKey = <<>>
    /\ pc = "exited"
    /\ Printed("mandatory")

(***************************************************************************)
(* C2: whenever AddIssueWorklog is called, the issue key, time spent,     *)
(* comment, started date and started time of the parameter record are all *)
(* non-empty.                                                              *)
(***************************************************************************)
C2_FieldsNonEmptyAtCall ==
    calls # <<>> =>
        /\ params.issueKey # <<>>
        /\ params.timeSpent # ""
        /\ params.comment # ""
        /\ params.startedDate # ""
        /\ params.startedTime # ""

(***************************************************************************)
(* C3: in non-interactive mode with the issue key present, getQuestions   *)
(* returns an empty question list and survey.Ask is never called for a    *)
(* field.                                                                  *)
(***************************************************************************)
C3_NoFieldPromptNonInteractive ==
    (NonInteractiveInput /\ Resolved.issueKey # <<>>) =>
        /\ qs = <<>>
        /\ FieldAsks = <<>>

(***************************************************************************)
(* C4: with no comment argument and a template path or piped stdin, the   *)
(* body passed to AddIssueWorklog is the content read from that source    *)
(* and no comment prompt is shown; the comment prompt is used only when   *)
(* neither a template nor piped input is present.                          *)
(***************************************************************************)
C4_BodyFromSource ==
    /\ (calls # <<>> /\ Resolved.comment = "" /\ (flags.template # "" \/ stdin)) =>
          /\ \A i \in 1..Len(calls) : calls[i].body = readBody
          /\ ~CommentAsked
    /\ CommentAsked => (flags.template = "" /\ ~stdin)

(***************************************************************************)
(* C5: every non-empty positional argument reaches AddIssueWorklog        *)
(* unchanged: the normalized args[0], the time spent args[1], the body    *)
(* args[2] (also with a template flag or piped stdin) and the timestamp   *)
(* startedDate + "T" + startedTime + ":00.000+0100" from args[3], args[4]. *)
(***************************************************************************)
C5_SuppliedArgsReachCall ==
    \A i \in 1..Len(calls) :
        /\ (Len(args) >= 1 /\ args[1] # <<>>) =>
              calls[i].issueKey = GetJiraIssueKey(ProjectKey, args[1])
        /\ (Len(args) >= 2 /\ args[2] # "") => calls[i].timeSpent = args[2]
        /\ (Len(args) >= 3 /\ args[3] # "") => calls[i].body = args[3]
        /\ (Len(args) >= 4 /\ args[4] # "") =>
              \E t \in ClockValues :
                  calls[i].started = args[4] \o "T" \o t \o ":00.000+0100"
        /\ (Len(args) >= 5 /\ args[5] # "") =>
              \E d \in DateValues :
                  calls[i].started = d \o "T" \o args[5] \o ":00.000+0100"

C5_Witness ==
    /\ calls # <<>>
    /\ Len(args) >= 5
    /\ AllSupplied
    /\ flags.template = "/path/to/template.tmpl"
    /\ stdin
    /\ calls[1].body = "My worklog"
    /\ calls[1].started = "2022-02-02T13:35:00.000+0100"

(***************************************************************************)
(* C6: AddIssueWorklog is called only if the confirmation gate was        *)
(* skipped because noInput is in effect, or the user chose submit at the  *)
(* gate, which is asked after the field questions; after cancel the       *)
(* process has exited non-zero and AddIssueWorklog was never called.       *)
(***************************************************************************)
C6_CallOnlyAfterGate ==
    /\ calls # <<>> =>
          \/ params.noInput /\ action = "" /\ FieldAsks = asks
          \/ /\ ~params.noInput
             /\ action = ActionSubmit
             /\ asks = Append(FieldAsks, <<"action">>)
    /\ action = ActionCancel =>
          (pc = "exited" /\ exitCode = 1 /\ calls = <<>>)

C6_Witness ==
    /\ calls # <<>>
    /\ action = ActionSubmit
    /\ Len(asks) = 2

(***************************************************************************)
(* C7: the issue key passed to AddIssueWorklog is always in               *)
(* project-key-normalized form, whether it came from the first argument   *)
(* or from the answer to the "Issue key" question.                         *)
(***************************************************************************)
C7_KeyNormalizedAtCall ==
    \A i \in 1..Len(calls) :
        calls[i].issueKey = GetJiraIssueKey(ProjectKey, calls[i].issueKey)

(***************************************************************************)
(* C8 as stated: every finished run either created the worklog and exited *)
(* with 0, or did not create it and exited non-zero.                       *)
(***************************************************************************)
C8_TwoOutcomes ==
    pc = "exited" =>
        \/ Created /\ exitCode = 0
        \/ ~Created /\ exitCode # 0

(***************************************************************************)
(* C8 amended: a run that exits 0 created the worklog, a run that did not *)
(* create it exits non-zero, and a run that created it exits non-zero     *)
(* only when --web is set and the browser navigation failed.               *)
(***************************************************************************)
C8_OutcomesUpToNavigate ==
    pc = "exited" =>
        /\ exitCode = 0 => Created
        /\ ~Created => exitCode = 1
        /\ (Created /\ exitCode # 0) =>
              (flags.web /\ Printed("navigate error"))

C8_Witness ==
    /\ pc = "exited"
    /\ Created
    /\ exitCode = 1
    /\ flags.web

(***************************************************************************)
(* C9: one invocation calls AddIssueWorklog at most once; when the call   *)
(* fails the process has exited non-zero without a second call, success   *)
(* message, browse URL or browser navigation.                              *)
(***************************************************************************)
C9_AtMostOneCall ==
    /\ Len(calls) <= 1
    /\ (calls # <<>> /\ ~calls[1].ok) =>
          /\ pc = "exited"
          /\ exitCode = 1
          /\ ~Printed("success")
          /\ ~Printed("url")
          /\ ~Printed("navigate")

C9_Witness ==
    /\ calls # <<>>
    /\ ~calls[1].ok
    /\ flags.web
    /\ pc = "exited"

(***************************************************************************)
(* C10: every question asked is for a field that was empty after argument *)
(* resolution, no field is asked twice, the questions keep the order      *)
(* issue key, time spent, comment, started date, started time, and with   *)
(* all five fields supplied the list is empty and no field is asked.       *)
(***************************************************************************)
C10_QuestionsForEmptyFieldsInOrder ==
    /\ \A i \in 1..Len(qs) :
          /\ qs[i] \in { QuestionOrder[k] : k \in 1..Len(QuestionOrder) }
          /\ FieldEmpty(Resolved, qs[i])
    /\ \A i, j \in 1..Len(qs) : i < j => Rank(qs[i]) < Rank(qs[j])
    /\ \A i \in 1..Len(FieldAsks) : FieldAsks[i] = qs
    /\ Len(FieldAsks) <= 1
    /\ AllSupplied => (qs = <<>> /\ FieldAsks = <<>>)

C10_Witness ==
    /\ Len(FieldAsks) = 1
    /\ FieldAsks[1] = <<"timeSpent", "comment", "startedDate", "startedTime">>
    /\ pc = "gate"
====
